---- MODULE Spec2Model ----
(***************************************************************************)
(* One invocation of pageScrape (javascript modules/scraper.js), from the  *)
(* point where getBrowser() has returned a browser, as a state machine.    *)
(* Every awaited browser or datastore operation is one step that either    *)
(* resolves or rejects; the page the site renders is an input.             *)
(***************************************************************************)
EXTENDS Integers, Sequences, FiniteSets, TLC

\* Largest number of result rows the rendered page holds.
MaxRows == 2

\* for (let j = 1; j <= 3; j++)
TierSlots == 3

\* The arguments of pageScrape(dept, arr, dateStr, url).
Dept == "DAL"
Arr == "HOU"
DateStr == "2022-05-16"
Url == "results"

\* Addresses page.url() can report after page.goto(url) has resolved.
Addresses == {"results", "search"}

----------------------------------------------------------------------------
(* The rendered page.  A row is what each row-indexed XPath query returns: *)
(* the sequence of the text contents of the matched elements (<<>> when    *)
(* the query matches nothing).  price[j] and seats[j] are the results of   *)
(* the row+tier-indexed queries of slot j.                                 *)

None == <<>>

RowFull ==
  [flightNum |-> <<"AA123 AA456", "AA123">>, stops |-> <<"1 stop">>,
   plane |-> <<"Change planes">>,
   dept |-> <<"9:00">>, deptAmPm |-> <<"AM">>,
   arr |-> <<"1:30">>, arrAmPm |-> <<"PM">>, dur |-> <<"4h 30m">>,
   price |-> << <<"100">>, <<"200">>, <<"300">> >>,
   seats |-> << <<"3 left">>, <<"1 left">>, <<"">> >>]

\* Row 2 of the fixture scenario: every price and seats element missing.
RowNoFares ==
  [RowFull EXCEPT !.price = <<None, None, None>>, !.seats = <<None, None, None>>]

\* Slot 1 has a price and no seats note, slot 2 a seats note and no price.
RowPartialFares ==
  [RowFull EXCEPT !.price = << <<"100">>, None, None >>,
                  !.seats = << None, <<"3 left">>, None >>]

\* Flight-number, stop-indicator and plane-change elements missing.
RowNoLabels ==
  [RowFull EXCEPT !.flightNum = None, !.stops = None, !.plane = None]

RowNoDept == [RowFull EXCEPT !.dept = None]

RowNoArr == [RowFull EXCEPT !.arrAmPm = None]

RowNoDuration == [RowFull EXCEPT !.dur = None]

\* Two of the three fare tiers rendered.
RowTwoTiers ==
  [RowFull EXCEPT !.price = << <<"100">>, <<"200">>, None >>,
                  !.seats = << <<"3 left">>, <<"1 left">>, None >>]

RowKinds ==
  {RowFull, RowNoFares, RowPartialFares, RowTwoTiers, RowNoLabels,
   RowNoDept, RowNoArr, RowNoDuration}

RECURSIVE SeqsOf(_, _)
SeqsOf(S, n) ==
  IF n = 0 THEN {<<>>}
  ELSE LET shorter == SeqsOf(S, n - 1)
       IN  shorter \cup {Append(s, x) : s \in {t \in shorter : Len(t) = n - 1}, x \in S}

Pages == SeqsOf(RowKinds, MaxRows)

----------------------------------------------------------------------------
(* Normalizer (./processing), on the texts the fixture rows carry.         *)

processFlightNums(text) ==
  CASE text = "AA123 AA456" -> <<"AA123", "AA456">>
    [] text = "AA123" -> <<"AA123">>
    [] OTHER -> <<>>

processNumStops(text) ==
  IF text = "1 stop" THEN "1" ELSE "Nonstop"

processPlaneChange(text) ==
  CASE text = "Change planes" -> "true"
    [] text = "No plane change" -> "false"
    [] OTHER -> "null"

processSeatsLeft(text) ==
  CASE text = "3 left" -> "3"
    [] text = "1 left" -> "1"
    [] OTHER -> "null"

----------------------------------------------------------------------------
VARIABLES
  pc,             \* the statement pageScrape is at
  page,           \* the rows the site renders
  address,        \* page.url() as line 109 reads it
  count,          \* const count (-1 before the row count query resolves)
  i, j,           \* the row and tier loop counters
  row,            \* the row's locals: flightNums, numStops, planeChange,
                  \* deptTime, arrTime, duration, prices, seatsLeft
  flights,        \* const flights = []
  m,              \* position of the for...of iteration over flights
  insertCalls,    \* the argument of every insert call issued, in order
  insertOutcomes, \* how each insert call ended: "ok", "error" or "raise"
  inFlight,       \* insert calls issued and not yet settled
  gotoCalls,      \* calls of page.goto
  closeCalls,     \* calls of browser.close
  attempted,      \* row indices whose extraction was started
  rowErrors,      \* what the row loop's catch logged: <<row index, error>>
  fatalAt,        \* the statement whose error reached the outer catch
  result,         \* what the invocation hands to its caller
  trace,          \* the operations outside the row and insert loops, in the
                  \* order they were started
  pushedRows,     \* the row index i at each flights.push, in order
  browser,        \* const browser: the session getBrowser returned (0 before)
  self,           \* the invocation whose statements are running
  other,          \* the suspended invocation's variables, if there is one
  plugins,        \* plugins registered on the module's puppeteerExtra
  sessions,       \* browser sessions launched by the process
  registryAccess, \* <<invocation, call>> for each call on puppeteerExtra
  closeLog,       \* <<invocation, session>> for each browser.close
  exitBy          \* the invocation whose getBrowser called process.exit

vars ==
  <<pc, page, address, count, i, j, row, flights, m, insertCalls,
    insertOutcomes, inFlight, gotoCalls, closeCalls, closeLog, attempted, rowErrors,
    fatalAt, result, trace, pushedRows, browser, self, other, plugins,
    sessions, registryAccess, closeLog, exitBy>>

\* What no statement after the launch touches.
procVars == <<browser, self, other, plugins, sessions, registryAccess, exitBy>>

persistVars == <<m, insertCalls, insertOutcomes, inFlight>>

\* Values handed to the caller.
Pending == [kind |-> "pending", records |-> <<>>]
Null == [kind |-> "null", records |-> <<>>]
Rejected == [kind |-> "rejected", records |-> <<>>]
Records(fs) == [kind |-> "records", records |-> fs]

\* return null (count === 0)
EmptyReturn == Null

\* return null (outer catch)
FatalReturn == Null

\* let flightNums, numStops, ..., prices = [], seatsLeft = [];
FreshLocals ==
  [flightNums |-> <<>>, numStops |-> "undefined", planeChange |-> "undefined",
   deptTime |-> "undefined", arrTime |-> "undefined", duration |-> "undefined",
   prices |-> <<>>, seatsLeft |-> <<>>]

\* No second invocation.
Absent == [pc |-> "absent"]

\* The invocation's variables at its first statement.
Start(p) ==
  /\ pc = "use"
  /\ page = p
  /\ browser = 0
  /\ address = "about:blank"
  /\ count = -1
  /\ i = 0
  /\ j = 0
  /\ row = FreshLocals
  /\ flights = <<>>
  /\ m = 0
  /\ insertCalls = <<>>
  /\ insertOutcomes = <<>>
  /\ inFlight = 0
  /\ gotoCalls = 0
  /\ closeCalls = 0
  /\ attempted = {}
  /\ rowErrors = {}
  /\ fatalAt = "none"
  /\ result = Pending
  /\ trace = <<>>
  /\ pushedRows = <<>>

\* The module just loaded: nothing registered, nothing launched.
ModuleLoaded ==
  /\ plugins = 0
  /\ sessions = 0
  /\ registryAccess = {}
  /\ closeLog = {}
  /\ exitBy = 0

Init ==
  /\ \E p \in Pages : Start(p)
  /\ self = 1
  /\ other = Absent
  /\ ModuleLoaded

----------------------------------------------------------------------------
(* Launch: lines 42-61 and 95-100.                                         *)

\* puppeteerExtra.use(pluginStealth()): one more plugin on the module's
\* puppeteerExtra object.
Use ==
  /\ pc = "use"
  /\ plugins' = plugins + 1
  /\ registryAccess' = registryAccess \cup {<<self, "use">>}
  /\ pc' = "launch"
  /\ UNCHANGED <<page, address, count, i, j, row, flights, pushedRows,
                 persistVars, gotoCalls, closeCalls, closeLog, attempted,
                 rowErrors, fatalAt, result, trace, browser, self, other,
                 sessions, exitBy>>

\* process.exit(1) ends the suspended invocation along with this one, unless
\* it has returned already or was never started.
Killed(o) ==
  IF o.pc \in {"absent", "done", "use"} THEN o ELSE [o EXCEPT !.pc = "exited"]

\* const browser = await getBrowser(): puppeteerExtra.launch with the
\* registered plugins; a rejection is caught in getBrowser, which logs it and
\* calls process.exit(1).
Launch ==
  /\ pc = "launch"
  /\ registryAccess' = registryAccess \cup {<<self, "launch">>}
  /\ \/ /\ sessions' = sessions + 1
        /\ browser' = sessions + 1
        /\ pc' = "setup"
        /\ UNCHANGED <<other, exitBy>>
     \/ /\ pc' = "exited"
        /\ exitBy' = self
        /\ other' = Killed(other)
        /\ UNCHANGED <<sessions, browser>>
  /\ UNCHANGED <<page, address, count, i, j, row, flights, pushedRows,
                 persistVars, gotoCalls, closeCalls, closeLog, attempted,
                 rowErrors, fatalAt, result, trace, self, plugins>>

----------------------------------------------------------------------------
(* Navigation: lines 102-133.                                              *)

\* A rejection swallowed, control going on to the release and the return.
ThrowOnward ==
  /\ pc' = "close"
  /\ fatalAt' = pc

\* A rejection outside the row loop's try: control moves to the outer catch.
Throw ==
  /\ pc' = "catch"
  /\ fatalAt' = pc

\* browser.newPage(), createCursor(page, await getRandomPagePoint(page)),
\* installMouseHelper(page)
Setup ==
  /\ pc = "setup"
  /\ \/ pc' = "goto" /\ UNCHANGED fatalAt
     \/ Throw
  /\ UNCHANGED <<procVars, page, trace, address, count, i, j, row, flights, pushedRows, persistVars,
                 gotoCalls, closeCalls, closeLog, attempted, rowErrors, result>>

\* await page.goto(url, {waitUntil: "networkidle2", timeout: 90000})
Goto ==
  /\ pc = "goto"
  /\ trace' = Append(trace, "goto")
  /\ gotoCalls' = gotoCalls + 1
  /\ \/ /\ address' \in Addresses
        /\ pc' = "redirectCheck"
        /\ UNCHANGED fatalAt
     \/ /\ Throw
        /\ UNCHANGED address
  /\ UNCHANGED <<procVars, page, count, i, j, row, flights, pushedRows, persistVars,
                 closeCalls, closeLog, attempted, rowErrors, result>>

\* if (page.url() !== url)
RedirectCheck ==
  /\ pc = "redirectCheck"
  /\ trace' = Append(trace, "redirectCheck")
  /\ pc' = IF address # Url THEN "waitForXPath" ELSE "scroll"
  /\ UNCHANGED <<procVars, page, address, count, i, j, row, flights, pushedRows, persistVars,
                 gotoCalls, closeCalls, closeLog, attempted, rowErrors, fatalAt, result>>

\* The wait for the submit control with its rejection left uncaught.
WaitForXPathFatal ==
  /\ pc = "waitForXPath"
  /\ trace' = Append(trace, "waitForXPath")
  /\ \/ pc' = "click" /\ UNCHANGED fatalAt
     \/ pc' = "catch" /\ fatalAt' = pc
  /\ UNCHANGED <<procVars, page, address, count, i, j, row, flights, pushedRows, m,
                 insertCalls, insertOutcomes, inFlight, gotoCalls, closeCalls, closeLog,
                 attempted, rowErrors, result>>

\* await page.waitForXPath(submit button, {timeout: 5000}); a rejection (the
\* control is not found) is caught by the inner catch, which only warns.
WaitForXPath ==
  /\ pc = "waitForXPath"
  /\ trace' = Append(trace, "waitForXPath")
  /\ pc' \in {"click", "scroll"}
  /\ UNCHANGED <<procVars, page, address, count, i, j, row, flights, pushedRows, persistVars,
                 gotoCalls, closeCalls, closeLog, attempted, rowErrors, fatalAt, result>>

\* await cursor.click(search, ...); a rejection is caught by the inner catch.
Click ==
  /\ pc = "click"
  /\ trace' = Append(trace, "click")
  /\ pc' \in {"clickSettle", "scroll"}
  /\ UNCHANGED <<procVars, page, address, count, i, j, row, flights, pushedRows, persistVars,
                 gotoCalls, closeCalls, closeLog, attempted, rowErrors, fatalAt, result>>

\* await page.waitForTimeout(5000), still inside the inner try
ClickSettle ==
  /\ pc = "clickSettle"
  /\ trace' = Append(trace, "clickSettle")
  /\ pc' = "scroll"
  /\ UNCHANGED <<procVars, page, address, count, i, j, row, flights, pushedRows, persistVars,
                 gotoCalls, closeCalls, closeLog, attempted, rowErrors, fatalAt, result>>

\* await page.evaluate(() => window.scrollBy(0, 450))
Scroll ==
  /\ pc = "scroll"
  /\ trace' = Append(trace, "scroll")
  /\ \/ pc' = "settle" /\ UNCHANGED fatalAt
     \/ Throw
  /\ UNCHANGED <<procVars, page, address, count, i, j, row, flights, pushedRows, persistVars,
                 gotoCalls, closeCalls, closeLog, attempted, rowErrors, result>>

\* await page.waitForTimeout(3000)
Settle ==
  /\ pc = "settle"
  /\ trace' = Append(trace, "settle")
  /\ \/ pc' = "count" /\ UNCHANGED fatalAt
     \/ Throw
  /\ UNCHANGED <<procVars, page, address, count, i, j, row, flights, pushedRows, persistVars,
                 gotoCalls, closeCalls, closeLog, attempted, rowErrors, result>>

\* const count = await page.$$eval(".air-booking-select-detail", rows => rows.length)
\* followed by if (count === 0) and the entry of the row loop.
Count ==
  /\ pc = "count"
  /\ \/ /\ count' = Len(page)
        /\ IF Len(page) = 0
             THEN /\ pc' = "closeEmpty"
                  /\ trace' = trace \o <<"count", "empty">>
                  /\ UNCHANGED i
             ELSE /\ pc' = "flightNums"
                  /\ trace' = trace \o <<"count", "extract">>
                  /\ i' = 1
        /\ UNCHANGED fatalAt
     \/ /\ Throw
        /\ trace' = Append(trace, "count")
        /\ UNCHANGED <<count, i>>
  /\ UNCHANGED <<procVars, page, address, j, row, flights, pushedRows, persistVars,
                 gotoCalls, closeCalls, closeLog, attempted, rowErrors, result>>

----------------------------------------------------------------------------
(* Row extraction: lines 143-270.  Each step is one field: its row-indexed *)
(* query or queries, the read of the first match's text, the Normalizer    *)
(* call and the assignment.  Any of the awaited calls may reject.          *)

\* page.evaluate((el) => el.textContent, els[0]): with no match els[0] is
\* undefined and the read of undefined.textContent rejects the call.
TextContentThrows(els) == Len(els) = 0

\* The flight numbers read from the last matched element, not the first.
ExtractFlightNumsLast(els) ==
  IF Len(els) > 0 THEN processFlightNums(els[Len(els)]) ELSE <<>>

\* flightNumElement.length > 0 ? processFlightNums(text) : []
ExtractFlightNums(els) ==
  IF Len(els) > 0 THEN processFlightNums(els[1]) ELSE <<>>

\* numStopsElement.length > 0 ? processNumStops(text) : "Nonstop"
ExtractNumStops(els) ==
  IF Len(els) > 0 THEN processNumStops(els[1]) ELSE "Nonstop"

\* planeChangeElement.length > 0 ? processPlaneChange(text) : null
ExtractPlaneChange(els) ==
  IF Len(els) > 0 THEN processPlaneChange(els[1]) ELSE "null"

\* `${text of els[0]} ${text of ampm[0]}`
TimeText(els, ampm) == els[1] \o " " \o ampm[1]

\* The price put at the front of the list (unshift for push).
PricePushFront(ps, els) ==
  <<IF Len(els) > 0 THEN els[1] ELSE "Unavailable">> \o ps

\* The price push with a miss filled with the empty string.
PricePushEmpty(ps, els) ==
  Append(ps, IF Len(els) > 0 THEN els[1] ELSE "")

\* prices.push(priceElement.length > 0 ? text : "Unavailable")
PricePush(ps, els) ==
  Append(ps, IF Len(els) > 0 THEN els[1] ELSE "Unavailable")

\* The seats push with a miss skipped instead of filled.
SeatsPushSkipMiss(ss, els) ==
  IF Len(els) > 0 THEN Append(ss, processSeatsLeft(els[1])) ELSE ss

\* seatsLeft.push(seatsLeftElement.length > 0 ? processSeatsLeft(text) : null)
SeatsPush(ss, els) ==
  Append(ss, IF Len(els) > 0 THEN processSeatsLeft(els[1]) ELSE "null")

\* new FlightObj(dept, arr, dateStr, new MetadataObj(...))
FlightObj(r) ==
  [departurePort |-> Dept, arrivalPort |-> Arr, date |-> DateStr, metadata |-> r]

\* i++ and the loop test i <= count; past the last row, console.log(flights)
\* and the entry of the for...of loop over fs, the record sequence.
LoopStep(fs) ==
  /\ i' = i + 1
  /\ j' = 0
  /\ row' = FreshLocals
  /\ IF i + 1 <= count
       THEN /\ pc' = "flightNums"
            /\ UNCHANGED <<m, trace>>
       ELSE /\ pc' = (IF Len(fs) > 0 THEN "insert" ELSE "close")
            /\ m' = 1
            /\ trace' = Append(trace, "persist")

\* Errors a row step can raise: an awaited call rejecting for a reason of its
\* own, in the field steps or in the tier loop, or the text read of a missing
\* element.
RowErrorKinds == {"rejected", "fare rejected", "TypeError"}

\* Row indices whose extraction raised.
FailedRows == {e[1] : e \in rowErrors}

\* The row's error leaving the loop for the outer catch.
RowCatchAbort(error) ==
  /\ rowErrors' = rowErrors \cup {<<i, error>>}
  /\ pc' = "catch"
  /\ fatalAt' = pc
  /\ UNCHANGED <<i, j, row, m, flights, pushedRows, trace>>

\* The row's catch keeping what the row had gathered as a record.
RowCatchKeepsPartial(error) ==
  /\ rowErrors' = rowErrors \cup {<<i, error>>}
  /\ flights' = Append(flights, FlightObj(row))
  /\ pushedRows' = Append(pushedRows, i)
  /\ LoopStep(flights')
  /\ UNCHANGED fatalAt

\* catch (error) { console.error(`Error processing flight ${i}:`, error) } :
\* the row adds no record and the loop goes on.
RowCatch(error) ==
  /\ rowErrors' = rowErrors \cup {<<i, error>>}
  /\ LoopStep(flights)
  /\ UNCHANGED <<flights, pushedRows, fatalAt>>

\* A step of the row that resolved: the locals become r, control moves to next.
RowStep(r, next) ==
  /\ row' = r
  /\ pc' = next
  /\ UNCHANGED <<i, m, flights, pushedRows, rowErrors, fatalAt, trace>>

FlightNumsStep ==
  /\ pc = "flightNums"
  /\ attempted' = attempted \cup {i}
  /\ \/ /\ RowStep([row EXCEPT !.flightNums = ExtractFlightNums(page[i].flightNum)],
                   "numStops")
        /\ UNCHANGED j
     \/ RowCatch("rejected")
  /\ UNCHANGED <<procVars, page, address, count, insertCalls, insertOutcomes, inFlight,
                 gotoCalls, closeCalls, closeLog, result>>

NumStopsStep ==
  /\ pc = "numStops"
  /\ \/ /\ RowStep([row EXCEPT !.numStops = ExtractNumStops(page[i].stops)],
                   "planeChange")
        /\ UNCHANGED j
     \/ RowCatch("rejected")
  /\ UNCHANGED <<procVars, page, address, count, insertCalls, insertOutcomes, inFlight,
                 gotoCalls, closeCalls, closeLog, attempted, result>>

PlaneChangeStep ==
  /\ pc = "planeChange"
  /\ \/ /\ RowStep([row EXCEPT !.planeChange = ExtractPlaneChange(page[i].plane)],
                   "deptTime")
        /\ UNCHANGED j
     \/ RowCatch("rejected")
  /\ UNCHANGED <<procVars, page, address, count, insertCalls, insertOutcomes, inFlight,
                 gotoCalls, closeCalls, closeLog, attempted, result>>

DeptTimeStep ==
  /\ pc = "deptTime"
  /\ \/ /\ TextContentThrows(page[i].dept) \/ TextContentThrows(page[i].deptAmPm)
        /\ RowCatch("TypeError")
     \/ /\ ~TextContentThrows(page[i].dept)
        /\ ~TextContentThrows(page[i].deptAmPm)
        /\ RowStep([row EXCEPT !.deptTime = TimeText(page[i].dept, page[i].deptAmPm)],
                   "arrTime")
        /\ UNCHANGED j
     \/ RowCatch("rejected")
  /\ UNCHANGED <<procVars, page, address, count, insertCalls, insertOutcomes, inFlight,
                 gotoCalls, closeCalls, closeLog, attempted, result>>

ArrTimeStep ==
  /\ pc = "arrTime"
  /\ \/ /\ TextContentThrows(page[i].arr) \/ TextContentThrows(page[i].arrAmPm)
        /\ RowCatch("TypeError")
     \/ /\ ~TextContentThrows(page[i].arr)
        /\ ~TextContentThrows(page[i].arrAmPm)
        /\ RowStep([row EXCEPT !.arrTime = TimeText(page[i].arr, page[i].arrAmPm)],
                   "duration")
        /\ UNCHANGED j
     \/ RowCatch("rejected")
  /\ UNCHANGED <<procVars, page, address, count, insertCalls, insertOutcomes, inFlight,
                 gotoCalls, closeCalls, closeLog, attempted, result>>

\* duration, then the entry of the tier loop: let j = 1
DurationStep ==
  /\ pc = "duration"
  /\ \/ /\ TextContentThrows(page[i].dur)
        /\ RowCatch("TypeError")
     \/ /\ ~TextContentThrows(page[i].dur)
        /\ RowStep([row EXCEPT !.duration = page[i].dur[1]], "price")
        /\ j' = 1
     \/ RowCatch("rejected")
  /\ UNCHANGED <<procVars, page, address, count, insertCalls, insertOutcomes, inFlight,
                 gotoCalls, closeCalls, closeLog, attempted, result>>

PriceStep ==
  /\ pc = "price"
  /\ \/ /\ RowStep([row EXCEPT !.prices = PricePush(row.prices, page[i].price[j])],
                   "seats")
        /\ UNCHANGED j
     \/ RowCatch("fare rejected")
  /\ UNCHANGED <<procVars, page, address, count, insertCalls, insertOutcomes, inFlight,
                 gotoCalls, closeCalls, closeLog, attempted, result>>

\* the seats push, then j++ and the loop test j <= 3
SeatsStep ==
  /\ pc = "seats"
  /\ \/ /\ RowStep([row EXCEPT !.seatsLeft = SeatsPush(row.seatsLeft, page[i].seats[j])],
                   IF j + 1 <= TierSlots THEN "price" ELSE "push")
        /\ j' = j + 1
     \/ RowCatch("fare rejected")
  /\ UNCHANGED <<procVars, page, address, count, insertCalls, insertOutcomes, inFlight,
                 gotoCalls, closeCalls, closeLog, attempted, result>>

\* flights.push(new FlightObj(dept, arr, dateStr, metadata)), end of the try
Push ==
  /\ pc = "push"
  /\ flights' = Append(flights, FlightObj(row))
  /\ pushedRows' = Append(pushedRows, i)
  /\ LoopStep(flights')
  /\ UNCHANGED <<procVars, page, address, count, insertCalls, insertOutcomes, inFlight,
                 gotoCalls, closeCalls, closeLog, attempted, rowErrors, fatalAt, result>>

----------------------------------------------------------------------------
(* Persistence, lines 273-280, and the ways out, lines 135-139, 282-288.   *)

InsertOutcomes == {"ok", "error", "raise"}

\* supabase.from("Flights").insert([flight]) is issued
InsertCall ==
  /\ pc = "insert"
  /\ insertCalls' = Append(insertCalls, <<flights[m]>>)
  /\ inFlight' = inFlight + 1
  /\ pc' = "awaitInsert"
  /\ UNCHANGED <<procVars, page, trace, address, count, i, j, row, flights, pushedRows, m, insertOutcomes,
                 gotoCalls, closeCalls, closeLog, attempted, rowErrors, fatalAt, result>>

\* Where the loop goes once an insert has settled with outcome o: a result
\* with or without an error is logged and the iteration moves on; a rejected
\* call leaves the loop for the outer catch.
AfterInsert(o) ==
  IF o = "raise"
    THEN /\ Throw
         /\ UNCHANGED m
    ELSE /\ m' = m + 1
         /\ pc' = IF m + 1 <= Len(flights) THEN "insert" ELSE "close"
         /\ UNCHANGED fatalAt

\* the await of the insert call settles
InsertReturn ==
  /\ pc = "awaitInsert"
  /\ \E o \in InsertOutcomes :
       /\ insertOutcomes' = Append(insertOutcomes, o)
       /\ AfterInsert(o)
  /\ inFlight' = inFlight - 1
  /\ UNCHANGED <<procVars, page, trace, address, count, i, j, row, flights, pushedRows, insertCalls,
                 gotoCalls, closeCalls, closeLog, attempted, rowErrors, result>>

\* await browser.close(); return null;   (count === 0)
CloseEmpty ==
  /\ pc = "closeEmpty"
  /\ trace' = Append(trace, "close")
  /\ closeCalls' = closeCalls + 1
  /\ closeLog' = closeLog \cup {<<self, browser>>}
  /\ \/ /\ pc' = "done"
        /\ result' = EmptyReturn
        /\ UNCHANGED fatalAt
     \/ /\ Throw
        /\ UNCHANGED result
  /\ UNCHANGED <<procVars, page, address, count, i, j, row, flights, pushedRows, persistVars,
                 gotoCalls, attempted, rowErrors>>

\* await browser.close(); return flights;
CloseFinal ==
  /\ pc = "close"
  /\ trace' = Append(trace, "close")
  /\ closeCalls' = closeCalls + 1
  /\ closeLog' = closeLog \cup {<<self, browser>>}
  /\ \/ /\ pc' = "done"
        /\ result' = Records(flights)
        /\ UNCHANGED fatalAt
     \/ /\ Throw
        /\ UNCHANGED result
  /\ UNCHANGED <<procVars, page, address, count, i, j, row, flights, pushedRows, persistVars,
                 gotoCalls, attempted, rowErrors>>

\* catch (error) { console.error(...); await browser.close(); return null; }
\* A rejection of this close is handled by nothing: the invocation rejects.
Catch ==
  /\ pc = "catch"
  /\ trace' = Append(trace, "catch")
  /\ closeCalls' = closeCalls + 1
  /\ closeLog' = closeLog \cup {<<self, browser>>}
  /\ pc' = "done"
  /\ result' \in {FatalReturn, Rejected}
  /\ UNCHANGED <<procVars, page, address, count, i, j, row, flights, pushedRows, persistVars,
                 gotoCalls, attempted, rowErrors, fatalAt>>

Next ==
  \/ Use
  \/ Launch
  \/ Setup
  \/ Goto
  \/ RedirectCheck
  \/ WaitForXPath
  \/ Click
  \/ ClickSettle
  \/ Scroll
  \/ Settle
  \/ Count
  \/ FlightNumsStep
  \/ NumStopsStep
  \/ PlaneChangeStep
  \/ DeptTimeStep
  \/ ArrTimeStep
  \/ DurationStep
  \/ PriceStep
  \/ SeatsStep
  \/ Push
  \/ InsertCall
  \/ InsertReturn
  \/ CloseEmpty
  \/ CloseFinal
  \/ Catch

Spec == Init /\ [][Next]_vars

----------------------------------------------------------------------------
(* Two invocations in one process, lines 95-100: a second call of          *)
(* pageScrape made while the first is suspended at an await.               *)

\* Pages of the two invocations.
PagesTwo == {<<>>, <<RowFull>>}

\* The running invocation's variables.
Current ==
  [pc |-> pc,
   page |-> page,
   address |-> address,
   count |-> count,
   i |-> i,
   j |-> j,
   row |-> row,
   flights |-> flights,
   m |-> m,
   insertCalls |-> insertCalls,
   insertOutcomes |-> insertOutcomes,
   inFlight |-> inFlight,
   gotoCalls |-> gotoCalls,
   closeCalls |-> closeCalls,
   attempted |-> attempted,
   rowErrors |-> rowErrors,
   fatalAt |-> fatalAt,
   result |-> result,
   trace |-> trace,
   pushedRows |-> pushedRows,
   browser |-> browser,
   self |-> self]

\* An invocation not yet started, on page p.
Fresh(k, p) ==
  [pc |-> "use", page |-> p, address |-> "about:blank", count |-> -1,
   i |-> 0, j |-> 0, row |-> FreshLocals, flights |-> <<>>, m |-> 0,
   insertCalls |-> <<>>, insertOutcomes |-> <<>>, inFlight |-> 0,
   gotoCalls |-> 0, closeCalls |-> 0, attempted |-> {}, rowErrors |-> {},
   fatalAt |-> "none", result |-> Pending, trace |-> <<>>,
   pushedRows |-> <<>>, browser |-> 0, self |-> k]

\* Statements the running invocation reaches without an await before them:
\* its first statement, the if of line 109, the push of line 266 and the
\* insert call of line 274.
NoAwait == {"use", "redirectCheck", "push", "insert"}

\* The running invocation is suspended at an await, or has returned, and the
\* event loop resumes the other one.
Switch ==
  /\ pc \notin NoAwait \cup {"exited"}
  /\ other.pc \notin {"absent", "done", "exited"}
  /\ other' = Current
  /\ pc' = other.pc
  /\ page' = other.page
  /\ address' = other.address
  /\ count' = other.count
  /\ i' = other.i
  /\ j' = other.j
  /\ row' = other.row
  /\ flights' = other.flights
  /\ m' = other.m
  /\ insertCalls' = other.insertCalls
  /\ insertOutcomes' = other.insertOutcomes
  /\ inFlight' = other.inFlight
  /\ gotoCalls' = other.gotoCalls
  /\ closeCalls' = other.closeCalls
  /\ attempted' = other.attempted
  /\ rowErrors' = other.rowErrors
  /\ fatalAt' = other.fatalAt
  /\ result' = other.result
  /\ trace' = other.trace
  /\ pushedRows' = other.pushedRows
  /\ browser' = other.browser
  /\ self' = other.self
  /\ UNCHANGED <<plugins, sessions, registryAccess, closeLog, exitBy>>

InitTwo ==
  /\ \E p \in PagesTwo : Start(p)
  /\ self = 1
  /\ other \in {Fresh(2, p) : p \in PagesTwo}
  /\ ModuleLoaded

NextTwo ==
  \/ Next
  \/ Switch

SpecTwo == InitTwo /\ [][NextTwo]_vars

----------------------------------------------------------------------------
(* Properties.                                                             *)

Returned == pc = "done"

\* The row loop has run to its end.
ExtractionDone == count > 0 /\ i > count

\* The record row k contributed, for a row k that did not fail: the records
\* are pushed in row order, one per row that reached the push.
RecordOf(k) == flights[k - Cardinality({f \in FailedRows : f < k})]

Unavailable3 == <<"Unavailable", "Unavailable", "Unavailable">>

\* C1: once the invocation has returned, browser.close() has been invoked
\* exactly once, whichever way it ended, a failing close included.
C1_CloseExactlyOnce == Returned => closeCalls = 1

\* C2: every row none of whose awaited calls rejected for a reason of its own
\* (the only error logged for it, if any, is the text read of a missing
\* element) produces a record, and in it
\* a field whose query matched nothing holds the field's default: [] for the
\* flight numbers, "Nonstop", null, and "" for the two times and the duration.
C2_SelectorMissKeepsRow ==
  ExtractionDone =>
    \A k \in 1..count :
      (\A e \in rowErrors : e[1] = k => e[2] = "TypeError") =>
        /\ k \notin FailedRows
        /\ LET md == RecordOf(k).metadata
           IN  /\ page[k].flightNum = None => md.flightNums = <<>>
               /\ page[k].stops = None => md.numStops = "Nonstop"
               /\ page[k].plane = None => md.planeChange = "null"
               /\ (page[k].dept = None \/ page[k].deptAmPm = None) => md.deptTime = ""
               /\ (page[k].arr = None \/ page[k].arrAmPm = None) => md.arrTime = ""
               /\ page[k].dur = None => md.duration = ""

\* C3: a row's failure never ends the row loop: the invocation is past the
\* loop only when every row 1..count has been attempted, and then the records
\* number at least count minus the failed rows; inside the loop every row
\* before the current one has been attempted.
C3_RowFailureIsolated ==
  /\ count > 0 =>
       /\ i \in 1..(count + 1)
       /\ \A k \in 1..(i - 1) : k \in attempted
       /\ FailedRows \subseteq attempted
  /\ (count > 0 /\ pc \in {"insert", "awaitInsert", "close", "catch", "done"}) =>
       /\ i = count + 1
       /\ attempted = 1..count
       /\ Len(flights) >= count - Cardinality(FailedRows)

\* A run of two rows where row 1 failed and row 2 gave a record.
C3_Witness ==
  /\ Returned
  /\ count = 2
  /\ FailedRows = {1}
  /\ 2 \in attempted
  /\ Len(flights) = 1

\* C4: when the insert call for record k fails, by an error in its result or
\* by raising, an insert call is still issued for each later record.
C4_InsertFailureIsolated ==
  Returned =>
    \A k \in 1..Len(insertOutcomes) :
      insertOutcomes[k] # "ok" =>
        \A l \in (k + 1)..Len(flights) : l <= Len(insertCalls)

\* C5: every record of the record sequence has exactly 3 prices and exactly
\* 3 seatsLeft entries.
C5_ThreeTierSlots ==
  \A k \in 1..Len(flights) :
    /\ Len(flights[k].metadata.prices) = 3
    /\ Len(flights[k].metadata.seatsLeft) = 3

\* A record of a row with no fare element at all, next to a failed row.
C5_Witness ==
  /\ FailedRows # {}
  /\ \E k \in 1..Len(flights) :
       /\ flights[k].metadata.prices = Unavailable3
       /\ flights[k].metadata.seatsLeft = <<"null", "null", "null">>

\* C6: when the row count query returns 0 the invocation returns an empty
\* record sequence and raises nothing.
C6_EmptyPageReturnsNoRecords ==
  (Returned /\ count = 0) => result = Records(<<>>)

\* C7: the value returned by the zero-rows outcome differs from the value a
\* fatal navigation failure returns.
C7_EmptyDiffersFromFatal ==
  (Returned /\ count = 0 /\ fatalAt = "none") => result # FatalReturn

\* C8: when page.goto fails, goto was called exactly once, no row count or
\* row query was issued, no insert was made and the result is null.
C8_GotoFailureAborts ==
  (Returned /\ fatalAt = "goto") =>
    /\ gotoCalls = 1
    /\ count = -1
    /\ attempted = {}
    /\ insertCalls = <<>>
    /\ flights = <<>>
    /\ result = Null

\* C9: an invocation in which an insert failed returns every record that
\* extraction built.
C9_RecordsSurvivePersistence ==
  (Returned /\ \E k \in 1..Len(insertOutcomes) : insertOutcomes[k] # "ok") =>
    result = Records(flights)

\* C10: no insert is issued before the last row has been processed, at most
\* one insert is in flight, the k-th insert call carries the k-th record alone,
\* and an invocation that reached persistence has issued one insert per record.
C10_SequentialSweep ==
  /\ inFlight <= 1
  /\ insertCalls # <<>> => ExtractionDone
  /\ Len(insertCalls) <= Len(flights)
  /\ \A k \in 1..Len(insertCalls) : insertCalls[k] = <<flights[k]>>
  /\ (Returned /\ ExtractionDone) => Len(insertCalls) = Len(flights)

Range(f) == {f[k] : k \in 1..Len(f)}

\* What slot t of a rendered row r shows as its price and its seats note.
SlotPrice(r, t) == IF Len(r.price[t]) > 0 THEN r.price[t][1] ELSE "Unavailable"
SlotSeats(r, t) ==
  IF Len(r.seats[t]) > 0 THEN processSeatsLeft(r.seats[t][1]) ELSE "null"

RowSteps ==
  {"flightNums", "numStops", "planeChange", "deptTime", "arrTime", "duration",
   "price", "seats", "push"}

InTrace(l) == \E k \in 1..Len(trace) : trace[k] = l

\* C12: the wait for the submit control and the click happen only when the
\* address after load differs from url; a control not found (or a failing
\* click) never aborts the invocation, which goes on to the scroll; and the
\* row count query is always preceded by the scroll and the settle delay.
C12_RedirectBranch ==
  /\ (pc \in {"waitForXPath", "click", "clickSettle"} \/ InTrace("waitForXPath")
        \/ InTrace("click") \/ InTrace("clickSettle")) => address # Url
  /\ fatalAt \notin {"waitForXPath", "click", "clickSettle"}
  /\ \A k \in 1..(Len(trace) - 1) :
       /\ trace[k] = "waitForXPath" => trace[k + 1] \in {"click", "scroll"}
       /\ trace[k] = "click" => trace[k + 1] \in {"clickSettle", "scroll"}
       /\ trace[k] = "clickSettle" => trace[k + 1] = "scroll"
  /\ pc = "waitForXPath" => trace[Len(trace)] = "redirectCheck"
  /\ \A k \in 1..Len(trace) :
       trace[k] = "count" => k > 2 /\ trace[k - 2] = "scroll" /\ trace[k - 1] = "settle"

\* Redirected, the submit control not found, and the rows counted all the same.
C12_Witness ==
  /\ address # Url
  /\ InTrace("waitForXPath")
  /\ ~InTrace("click")
  /\ count >= 0

\* The invocations of the process: the running one and the suspended one.
Invocations == IF other.pc = "absent" THEN {Current} ELSE {Current, other}

\* C13: two interleaved invocations are independent: their sessions differ,
\* every close is of the closing invocation's own session, the module's
\* puppeteerExtra object written by one invocation is neither written nor
\* read by the other, no invocation is ended by the other's launch failure,
\* and the records an invocation returns are those of its own page.
C13_InvocationsIndependent ==
  /\ \A a, b \in Invocations :
       (a.self # b.self /\ a.browser # 0) => a.browser # b.browser
  /\ \A e \in closeLog : \A a \in Invocations :
       a.self = e[1] => (a.browser # 0 /\ e[2] = a.browser)
  /\ \A a, b \in registryAccess : a[2] = "use" => b[1] = a[1]
  /\ \A a \in Invocations : a.pc = "exited" => exitBy = a.self
  /\ \A a \in Invocations :
       a.result.kind = "records" =>
         /\ a.result.records = a.flights
         /\ Len(a.flights) = Len(a.pushedRows)
         /\ \A k \in 1..Len(a.flights) :
              \A t \in 1..3 :
                a.flights[k].metadata.prices[t] =
                  SlotPrice(a.page[a.pushedRows[k]], t)

\* C14: in every record, prices[t] is the matched text of slot t or
\* "Unavailable", seatsLeft[t] the seats-left parser's value of slot t or null,
\* each decided by its own query; a row with no fare element at all that did
\* not fail has a record of three "Unavailable" and three null.
C14_TierSlotsIndependent ==
  /\ Len(pushedRows) = Len(flights)
  /\ \A k \in 1..Len(flights) :
       LET md == flights[k].metadata
           r == page[pushedRows[k]]
       IN  /\ Len(md.prices) = 3
           /\ Len(md.seatsLeft) = 3
           /\ \A t \in 1..3 : /\ md.prices[t] = SlotPrice(r, t)
                              /\ md.seatsLeft[t] = SlotSeats(r, t)
  /\ ExtractionDone =>
       \A n \in 1..count :
         (page[n] = RowNoFares /\ n \notin FailedRows) =>
           \E k \in 1..Len(flights) :
             /\ pushedRows[k] = n
             /\ flights[k].metadata.prices = Unavailable3
             /\ flights[k].metadata.seatsLeft = <<"null", "null", "null">>

\* A record with a price and no seats note in slot 1 and the reverse in slot
\* 2, followed by the record of a row with no fare element.
C14_Witness ==
  /\ Len(flights) = 2
  /\ flights[1].metadata.prices = <<"100", "Unavailable", "Unavailable">>
  /\ flights[1].metadata.seatsLeft = <<"null", "3", "null">>
  /\ flights[2].metadata.prices = Unavailable3
  /\ flights[2].metadata.seatsLeft = <<"null", "null", "null">>

\* C15: in every record, a normalized field whose query matched holds the
\* Normalizer function's value on the text of the first matched element.
C15_NormalizedFields ==
  /\ Len(pushedRows) = Len(flights)
  /\ \A k \in 1..Len(flights) :
       LET md == flights[k].metadata
           r == page[pushedRows[k]]
       IN  /\ Len(r.flightNum) > 0 => md.flightNums = processFlightNums(r.flightNum[1])
           /\ Len(r.stops) > 0 => md.numStops = processNumStops(r.stops[1])
           /\ Len(r.plane) > 0 => md.planeChange = processPlaneChange(r.plane[1])
           /\ Len(md.seatsLeft) = 3
           /\ \A t \in 1..3 :
                Len(r.seats[t]) > 0 => md.seatsLeft[t] = processSeatsLeft(r.seats[t][1])

\* The record of a row with every element rendered, two for the flight numbers.
C15_Witness ==
  /\ Len(flights) > 0
  /\ page[pushedRows[1]] = RowFull
  /\ flights[1].metadata.flightNums = <<"AA123", "AA456">>
  /\ flights[1].metadata.numStops = "1"
  /\ flights[1].metadata.planeChange = "true"
  /\ flights[1].metadata.seatsLeft = <<"3", "1", "null">>

\* The session state machine: what may directly follow each operation.
Follows(l) ==
  CASE l = "goto" -> {"redirectCheck", "catch"}
    [] l = "redirectCheck" -> {"waitForXPath", "scroll"}
    [] l = "waitForXPath" -> {"click", "scroll"}
    [] l = "click" -> {"clickSettle", "scroll"}
    [] l = "clickSettle" -> {"scroll"}
    [] l = "scroll" -> {"settle", "catch"}
    [] l = "settle" -> {"count", "catch"}
    [] l = "count" -> {"empty", "extract", "catch"}
    [] l = "empty" -> {"close"}
    [] l = "extract" -> {"persist"}
    [] l = "persist" -> {"close", "catch"}
    [] l = "close" -> {"catch"}
    [] OTHER -> {}

\* C16: the operations follow the session state machine forwards only: each
\* follows one the machine allows before it, none occurs twice, the row steps
\* run in the extraction phase and the inserts in the persistence phase, and
\* an error that reaches the outer catch ends the invocation there, without
\* records.
C16_ForwardOnly ==
  /\ \A k \in 1..(Len(trace) - 1) : trace[k + 1] \in Follows(trace[k])
  /\ \A k, l \in 1..Len(trace) : trace[k] = trace[l] => k = l
  /\ trace # <<>> => trace[1] \in {"goto", "catch"}
  /\ pc \in RowSteps => trace[Len(trace)] = "extract"
  /\ pc \in {"insert", "awaitInsert"} => trace[Len(trace)] = "persist"
  /\ fatalAt # "none" =>
       /\ pc \in {"catch", "done"}
       /\ Returned => trace[Len(trace)] = "catch" /\ result.kind # "records"
  /\ (Returned /\ fatalAt = "none") => trace[Len(trace)] = "close"

\* A run through every phase, the search click included.
C16_Witness ==
  /\ Returned
  /\ trace = <<"goto", "redirectCheck", "waitForXPath", "click", "clickSettle",
               "scroll", "settle", "count", "extract", "persist", "close">>
  /\ result.kind = "records"
  /\ Len(insertCalls) = 2

\* C17: an invocation that has completed has returned a value, the record
\* sequence or null: no failure of an awaited operation, the release included,
\* reaches the caller as a rejection.
C17_AlwaysReturnsValue ==
  Returned => result.kind \in {"records", "null"}

NoDuplicates(f) == \A k, l \in 1..Len(f) : f[k] = f[l] => k = l

RowAtomicStep ==
  /\ flights' # flights =>
       /\ pc = "push"
       /\ row.numStops # "undefined"
       /\ row.planeChange # "undefined"
       /\ row.deptTime # "undefined"
       /\ row.arrTime # "undefined"
       /\ row.duration # "undefined"
       /\ Len(row.prices) = 3
       /\ Len(row.seatsLeft) = 3
       /\ flights' = Append(flights, FlightObj(row))
       /\ pushedRows' = Append(pushedRows, i)
  /\ rowErrors' # rowErrors => flights' = flights

\* C18: the record sequence changes only by the push of one record built from
\* a row whose fields and three tier slots are all resolved; no row index
\* contributes twice; and a step in which a row fails leaves the record
\* sequence as it was.
C18_RowAtomic ==
  /\ [](NoDuplicates(pushedRows) /\ Len(pushedRows) = Len(flights))
  /\ [][RowAtomicStep]_vars

\* Row 1 gave a record, then row 2 failed inside its tier loop.
C18_Witness ==
  /\ pushedRows = <<1>>
  /\ Len(flights) = 1
  /\ <<2, "fare rejected">> \in rowErrors

====
